---- MODULE Spec2Model ----
(***************************************************************************)
(* The CSS selector builder of src/task/08-objects-tasks.js: the class     *)
(* CSSSelector (constructor, fragment getters, checkUniqueness,            *)
(* checkOrder, stringify, combine) and the facade cssSelectorBuilder.      *)
(*                                                                         *)
(* A JavaScript string is modelled as the sequence of its pieces (each     *)
(* piece a one-or-more character string), concatenation as \o, '' as <<>>. *)
(* A CSSSelector object is the record of its two fields, value and type;   *)
(* type is the array the code keeps: the newest kind FIRST.                *)
(*                                                                         *)
(* The client holds one selector in the variable sel and receives the      *)
(* value returned by its last call in ret (the one before stays in old).   *)
(* It calls a facade constructor, a fragment getter on sel, stringify on   *)
(* sel, or combine on sel/ret, and may keep the returned selector as its   *)
(* new sel (Spec).  SpecShared runs two callers on one shared prefix.      *)
(***************************************************************************)
EXTENDS Integers, Sequences, FiniteSets, TLC

\* The number of builder calls one run makes: the calls of the client, or
\* in SpecShared the calls of the two callers together.
MaxCalls == 3

\* The fragment values and combinator strings the client passes.
Values == { <<"a">>, <<"b">> }
Combinators == { <<" ">>, <<"+">>, <<"||">> }

\* checkOrder's order array (0-based in the code, 1-based here).
order == <<"element", "id", "class", "attr", "pseudoClass", "pseudoElement">>

Kinds == { order[i] : i \in DOMAIN order }

\* The messages of the two errors the class throws; NoError: nothing thrown.
NoError == "no error"
UniquenessError == "Element, id and pseudo-element should not occur more then one time inside the selector"
OrderError == "Selector parts should be arranged in the following order: element, id, class, attribute, pseudo-class, pseudo-element"

\* No object: the content of a client variable that holds no selector.
Null == [value |-> <<>>, type |-> <<>>]

\* sel:   the selector the client goes on from (Null before it has one)
\* ret:   the selector its last call returned (Null when the call threw)
\* old:   the selector the call before returned, which the client still holds
\* call:  the last call: operation, arguments, and the operands as passed
\* err:   the message of the error the last call threw, or NoError
\* calls: the number of calls made
\* hist:  for sel, ret and old the calls that built it, oldest first
\*        (<<kind, value>>, or <<"combine", text>> for a combine result),
\*        and prevErr, what the call before the last one threw
\* out:   the strings the last (at most two) stringify calls on sel returned
\* alt:   the same calls made on a builder whose order check looks at the
\*        most recent kind only: its sel, its ret and what its last call threw
\* shared: two callers that extend one shared prefix selector, each with
\*        its own chain of appends (used by SpecShared only): the prefix
\*        object and what it was at the start, each caller's own selector
\*        (Null while it still stands on the prefix), the fragments it has
\*        appended, the outcomes it got, and who stepped first and last
VARIABLES sel, ret, old, call, err, calls, hist, out, alt, shared

vars == <<sel, ret, old, call, err, calls, hist, out, alt, shared>>

----------------------------------------------------------------------------
\* Array.prototype.indexOf: the 0-based index of the first x in arr, or -1.
indexOf(arr, x) ==
    IF \E i \in DOMAIN arr : arr[i] = x
    THEN (CHOOSE i \in DOMAIN arr : arr[i] = x /\ \A j \in 1..(i - 1) : arr[j] # x) - 1
    ELSE -1

\* this.type.filter(t => t === x).length
filterLength(type, x) == Len(SelectSeq(type, LAMBDA t : t = x))

\* checkUniqueness without its test of 'id'.
checkUniqueness_noId(type) ==
    IF filterLength(type, "element") > 1 THEN UniquenessError
    ELSE IF filterLength(type, "pseudoElement") > 1 THEN UniquenessError
    ELSE NoError

\* checkUniqueness without its test of 'pseudoElement'.
checkUniqueness_noPseudoElement(type) ==
    IF filterLength(type, "element") > 1 THEN UniquenessError
    ELSE IF filterLength(type, "id") > 1 THEN UniquenessError
    ELSE NoError

\* checkUniqueness: the message it throws on this.type, or NoError.
checkUniqueness(type) ==
    IF filterLength(type, "element") > 1 THEN UniquenessError
    ELSE IF filterLength(type, "id") > 1 THEN UniquenessError
    ELSE IF filterLength(type, "pseudoElement") > 1 THEN UniquenessError
    ELSE NoError

\* The loop of checkOrder over this.type.slice(1), from highestIndex.
RECURSIVE highestIndexLoop(_, _)
highestIndexLoop(rest, highestIndex) ==
    IF rest = <<>> THEN highestIndex
    ELSE highestIndexLoop(Tail(rest),
            IF indexOf(order, Head(rest)) > highestIndex
            THEN indexOf(order, Head(rest)) ELSE highestIndex)

\* checkOrder looping over this.type.slice(2).
checkOrder_slice2(type) ==
    LET currentType == type[1]
        highestIndex == highestIndexLoop(SubSeq(type, 3, Len(type)), 0)
    IN  IF indexOf(order, currentType) < highestIndex THEN OrderError ELSE NoError

\* checkOrder comparing with <= in place of <.
checkOrder_lessOrEqual(type) ==
    LET currentType == type[1]
        highestIndex == highestIndexLoop(Tail(type), 0)
    IN  IF indexOf(order, currentType) <= highestIndex THEN OrderError ELSE NoError

\* checkOrder with 'class' and 'attr' exchanged in its order array.
checkOrder_swapped(type) ==
    LET swapped == <<"element", "id", "attr", "class", "pseudoClass", "pseudoElement">>
        RECURSIVE loop(_, _)
        loop(rest, h) ==
            IF rest = <<>> THEN h
            ELSE loop(Tail(rest), IF indexOf(swapped, Head(rest)) > h
                                  THEN indexOf(swapped, Head(rest)) ELSE h)
    IN  IF indexOf(swapped, type[1]) < loop(Tail(type), 0) THEN OrderError ELSE NoError

\* checkOrder: the message it throws on this.type, or NoError.
checkOrder(type) ==
    LET currentType == type[1]
        highestIndex == highestIndexLoop(Tail(type), 0)
    IN  IF indexOf(order, currentType) < highestIndex THEN OrderError ELSE NoError

\* The switch with the 'attr' case leaving out the closing bracket.
switchValue_noBracket(remainder, t, value) ==
    CASE t = "element"       -> remainder \o value
      [] t = "id"            -> remainder \o <<"#">> \o value
      [] t = "class"         -> remainder \o <<".">> \o value
      [] t = "attr"          -> remainder \o <<"[">> \o value
      [] t = "pseudoClass"   -> remainder \o <<":">> \o value
      [] t = "pseudoElement" -> remainder \o <<":", ":">> \o value
      [] OTHER               -> remainder

\* The switch of the constructor on type[0]: what this.value becomes.
switchValue(remainder, t, value) ==
    CASE t = "element"       -> remainder \o value
      [] t = "id"            -> remainder \o <<"#">> \o value
      [] t = "class"         -> remainder \o <<".">> \o value
      [] t = "attr"          -> remainder \o <<"[">> \o value \o <<"]">>
      [] t = "pseudoClass"   -> remainder \o <<":">> \o value
      [] t = "pseudoElement" -> remainder \o <<":", ":">> \o value
      [] OTHER               -> remainder

\* The constructor calling checkOrder before checkUniqueness.
CSSSelector_orderFirst(value, type, remainder) ==
    LET r == checkOrder(type)
    IN  [value |-> switchValue(remainder, type[1], value),
         type  |-> type,
         error |-> IF r # NoError THEN r ELSE checkUniqueness(type)]

\* The constructor without its call of checkOrder.
CSSSelector_noOrderCheck(value, type, remainder) ==
    [value |-> switchValue(remainder, type[1], value),
     type  |-> type,
     error |-> checkUniqueness(type)]

\* new CSSSelector(value, type, remainder): the object's fields and the
\* message the constructor throws (checkUniqueness first, then checkOrder).
CSSSelector(value, type, remainder) ==
    LET u == checkUniqueness(type)
    IN  [value |-> switchValue(remainder, type[1], value),
         type  |-> type,
         error |-> IF u # NoError THEN u ELSE checkOrder(type)]

\* What a call leaves behind: the receiver (or operands) after it, the
\* object it returns (Null when it throws) and the message it throws.
Outcome(this, other, c) ==
    [this  |-> this,
     other |-> other,
     ret   |-> IF c.error = NoError THEN [value |-> c.value, type |-> c.type] ELSE Null,
     error |-> c.error]

\* stringify()
stringify(this) == this.value

\* A stringify that hands the string over and resets the selector.
stringifyCall_resets(this) ==
    [this |-> [this EXCEPT !.value = <<>>], text |-> this.value]

\* The call this.stringify(): the receiver after it and the string returned.
stringifyCall(this) ==
    [this |-> this, text |-> stringify(this)]

\* A getter that passes no remainder to the constructor.
getter_noRemainder(this, K, value) ==
    Outcome(this, Null, CSSSelector(value, <<K>> \o this.type, <<>>))

\* A getter that grows the receiver's own string before it constructs.
getter_growsThis(this, K, value) ==
    LET c == CSSSelector(value, <<K>> \o this.type, this.value)
    IN  Outcome([this EXCEPT !.value = c.value], Null, c)

\* A getter that does this.type.unshift(K) and passes this.type on.
getter_unshift(this, K, value) ==
    LET c == CSSSelector(value, <<K>> \o this.type, this.value)
    IN  Outcome([this EXCEPT !.type = <<K>> \o this.type], Null, c)

\* The six getters id, class, attr, element, pseudoClass, pseudoElement:
\* this.K(value) is new CSSSelector(value, [K, ...this.type], this.value).
getter(this, K, value) ==
    Outcome(this, Null, CSSSelector(value, <<K>> \o this.type, this.value))

\* The six facade constructors: new CSSSelector(value, [K]), remainder ''.
cssSelectorBuilder(K, value) ==
    Outcome(Null, Null, CSSSelector(value, <<K>>, <<>>))

\* combine without the space after the combinator.
combine_noSpace(selector1, combinator, selector2) ==
    LET value == stringify(selector1) \o <<" ">> \o combinator
                    \o stringify(selector2)
    IN  Outcome(selector1, selector2, CSSSelector(<<>>, <<"element">>, value))

\* combine handing the kinds of both operands on to the constructor.
combine_mergedTypes(selector1, combinator, selector2) ==
    LET value == stringify(selector1) \o <<" ">> \o combinator \o <<" ">>
                    \o stringify(selector2)
    IN  Outcome(selector1, selector2,
                CSSSelector(<<>>, <<"element">> \o selector2.type \o selector1.type, value))

\* combine handing the type array of its right operand on to the constructor.
combine_rightType(selector1, combinator, selector2) ==
    LET value == stringify(selector1) \o <<" ">> \o combinator \o <<" ">>
                    \o stringify(selector2)
    IN  Outcome(selector1, selector2, CSSSelector(<<>>, selector2.type, value))

\* CSSSelector.combine / cssSelectorBuilder.combine
combine(selector1, combinator, selector2) ==
    LET value == stringify(selector1) \o <<" ">> \o combinator \o <<" ">>
                    \o stringify(selector2)
    IN  Outcome(selector1, selector2, CSSSelector(<<>>, <<"element">>, value))

----------------------------------------------------------------------------
\* The builder that keeps the order rule by the most recent kind only:
\* checkOrder comparing type[0] with type[1] alone, all else as above.
lastKindOrder(type) ==
    IF Len(type) >= 2 /\ indexOf(order, type[1]) < indexOf(order, type[2])
    THEN OrderError ELSE NoError

lastKindSelector(value, type, remainder) ==
    LET u == checkUniqueness(type)
    IN  [value |-> switchValue(remainder, type[1], value),
         type  |-> type,
         error |-> IF u # NoError THEN u ELSE lastKindOrder(type)]

lastKindGetter(this, K, value) ==
    Outcome(this, Null, lastKindSelector(value, <<K>> \o this.type, this.value))

lastKindBuilder(K, value) ==
    Outcome(Null, Null, lastKindSelector(value, <<K>>, <<>>))

lastKindCombine(selector1, combinator, selector2) ==
    LET value == stringify(selector1) \o <<" ">> \o combinator \o <<" ">>
                    \o stringify(selector2)
    IN  Outcome(selector1, selector2, lastKindSelector(<<>>, <<"element">>, value))

----------------------------------------------------------------------------
\* No shared prefix: the callers of SpecShared are not running.
NoShared == [prefix |-> Null, prefix0 |-> Null, own |-> <<Null, Null>>,
             chain |-> << <<>>, <<>> >>, outs |-> << <<>>, <<>> >>,
             first |-> 0, last |-> 0]

NoCall == [op |-> "none", kind |-> "", value |-> <<>>,
           a1 |-> "", a2 |-> "", left |-> Null, right |-> Null]

Init ==
    /\ sel = Null
    /\ ret = Null
    /\ old = Null
    /\ call = NoCall
    /\ err = NoError
    /\ calls = 0
    /\ hist = [sel |-> <<>>, ret |-> <<>>, old |-> <<>>, prevErr |-> NoError]
    /\ out = <<>>
    /\ alt = [sel |-> Null, ret |-> Null, err |-> NoError]
    /\ shared = NoShared

\* The bookkeeping of a call that returned o.ret, built by the calls built;
\* before is the selector ret held until then, as the call left it.
Record(o, built, before) ==
    /\ calls' = calls + 1
    /\ ret' = o.ret
    /\ old' = before
    /\ err' = o.error
    /\ hist' = [sel |-> hist.sel,
                ret |-> IF o.error = NoError THEN built ELSE <<>>,
                old |-> hist.ret,
                prevErr |-> err]

\* ret = cssSelectorBuilder.K(value)
Factory ==
    \E K \in Kinds, value \in Values :
        LET o == cssSelectorBuilder(K, value)
        IN  /\ calls < MaxCalls
            /\ call' = [op |-> "factory", kind |-> K, value |-> value,
                        a1 |-> "", a2 |-> "", left |-> Null, right |-> Null]
            /\ Record(o, << <<K, value>> >>, ret)
            /\ alt' = [sel |-> alt.sel, ret |-> lastKindBuilder(K, value).ret,
                        err |-> lastKindBuilder(K, value).error]
            /\ UNCHANGED <<sel, out, shared>>

\* ret = sel.K(value)
AppendFragment ==
    \E K \in Kinds, value \in Values :
        LET o == getter(sel, K, value)
        IN  /\ calls < MaxCalls
            /\ sel # Null
            /\ call' = [op |-> "append", kind |-> K, value |-> value,
                        a1 |-> "sel", a2 |-> "", left |-> sel, right |-> Null]
            /\ sel' = o.this
            /\ Record(o, hist.sel \o << <<K, value>> >>, ret)
            /\ alt' = [sel |-> alt.sel, ret |-> lastKindGetter(alt.sel, K, value).ret,
                        err |-> lastKindGetter(alt.sel, K, value).error]
            /\ UNCHANGED <<out, shared>>

\* The client variable named n.
Held(n) == IF n = "sel" THEN sel ELSE ret
AltHeld(n) == IF n = "sel" THEN alt.sel ELSE alt.ret

\* ret = cssSelectorBuilder.combine(a1, combinator, a2), a1 and a2 among sel, ret
Combine ==
    \E a1 \in {"sel", "ret"}, a2 \in {"sel", "ret"}, combinator \in Combinators :
        LET o == combine(Held(a1), combinator, Held(a2))
        IN  /\ calls < MaxCalls
            /\ Held(a1) # Null
            /\ Held(a2) # Null
            /\ call' = [op |-> "combine", kind |-> "", value |-> combinator,
                        a1 |-> a1, a2 |-> a2, left |-> Held(a1), right |-> Held(a2)]
            /\ sel' = IF a1 = "sel" THEN o.this ELSE IF a2 = "sel" THEN o.other ELSE sel
            /\ Record(o, << <<"combine", o.ret.value>> >>,
                      IF a1 = "ret" THEN o.this ELSE IF a2 = "ret" THEN o.other ELSE ret)
            /\ alt' = LET p == lastKindCombine(AltHeld(a1), combinator, AltHeld(a2))
                       IN  [sel |-> alt.sel, ret |-> p.ret, err |-> p.error]
            /\ UNCHANGED <<out, shared>>

\* sel.stringify(): the client notes the string returned.
Stringify ==
    LET s == stringifyCall(sel)
    IN  /\ calls < MaxCalls
        /\ sel # Null
        /\ call' = [op |-> "stringify", kind |-> "", value |-> <<>>,
                    a1 |-> "sel", a2 |-> "", left |-> sel, right |-> Null]
        /\ sel' = s.this
        /\ out' = IF Len(out) < 2 THEN Append(out, s.text) ELSE <<out[2], s.text>>
        /\ Record([ret |-> Null, error |-> NoError], <<>>, ret)
        /\ alt' = [sel |-> alt.sel, ret |-> Null, err |-> NoError]
        /\ UNCHANGED shared

\* sel = ret: the client keeps the returned selector and goes on from it.
Keep ==
    /\ ret # Null
    /\ sel' = ret
    /\ ret' = Null
    /\ old' = Null
    /\ call' = NoCall
    /\ err' = NoError
    /\ hist' = [sel |-> hist.ret, ret |-> <<>>, old |-> <<>>, prevErr |-> NoError]
    /\ out' = <<>>
    /\ alt' = [sel |-> alt.ret, ret |-> Null, err |-> NoError]
    /\ UNCHANGED <<calls, shared>>

Next == Factory \/ AppendFragment \/ Combine \/ Stringify \/ Keep

Spec == Init /\ [][Next]_vars

----------------------------------------------------------------------------
(***************************************************************************)
(* Two callers on one shared prefix.  Each call is synchronous, so the     *)
(* callers interleave call by call.  Caller i appends fragments of its own *)
(* value; after a successful append it goes on from the selector returned, *)
(* after a failed one from the selector it stood on.                       *)
(***************************************************************************)
Callers == {1, 2}

CallerValue(i) == IF i = 1 THEN <<"a">> ELSE <<"b">>

\* The prefixes the callers may share: built by the facade.
Prefixes == { cssSelectorBuilder(K, <<"a">>).ret : K \in Kinds }

InitShared ==
    /\ sel = Null /\ ret = Null /\ old = Null
    /\ call = NoCall /\ err = NoError /\ calls = 0
    /\ hist = [sel |-> <<>>, ret |-> <<>>, old |-> <<>>, prevErr |-> NoError]
    /\ out = <<>>
    /\ alt = [sel |-> Null, ret |-> Null, err |-> NoError]
    /\ \E p \in Prefixes :
        shared = [NoShared EXCEPT !.prefix = p, !.prefix0 = p]

\* What caller i notes of a call: the error and the text returned.
Noted(o) == [err |-> o.error, text |-> stringify(o.ret)]

\* Caller i makes the next call of its chain: cur.K(CallerValue(i)).
CallerAppend(i) ==
    \E K \in Kinds :
        LET onPrefix == shared.own[i] = Null
            this == IF onPrefix THEN shared.prefix ELSE shared.own[i]
            o == getter(this, K, CallerValue(i))
        IN  /\ calls < MaxCalls
            /\ calls' = calls + 1
            /\ shared' = [shared EXCEPT
                    !.prefix = IF onPrefix THEN o.this ELSE @,
                    !.own[i] = IF o.error = NoError THEN o.ret
                               ELSE IF onPrefix THEN Null ELSE o.this,
                    !.chain[i] = Append(@, <<K, CallerValue(i)>>),
                    !.outs[i] = Append(@, Noted(o)),
                    !.first = IF @ = 0 THEN i ELSE @,
                    !.last = i]
            /\ UNCHANGED <<sel, ret, old, call, err, hist, out, alt>>

NextShared == \E i \in Callers : CallerAppend(i)

SpecShared == InitShared /\ [][NextShared]_vars

----------------------------------------------------------------------------
(***************************************************************************)
(* The vocabulary of the claims: the fragment-kind history oldest first,   *)
(* the precedence table, and the delimited form of a fragment.             *)
(***************************************************************************)
UniqueKinds == {"element", "id", "pseudoElement"}

Rank(K) ==
    CASE K = "element"       -> 0
      [] K = "id"            -> 1
      [] K = "class"         -> 2
      [] K = "attr"          -> 3
      [] K = "pseudoClass"   -> 4
      [] K = "pseudoElement" -> 5

\* The kinds a selector records, oldest first.
History(s) == [i \in 1..Len(s.type) |-> s.type[Len(s.type) + 1 - i]]

Occurs(K, H) == \E i \in DOMAIN H : H[i] = K

Count(K, H) == Cardinality({i \in DOMAIN H : H[i] = K})

MaxRank(H) ==
    IF H = <<>> THEN 0
    ELSE CHOOSE m \in {Rank(H[i]) : i \in DOMAIN H} :
            \A i \in DOMAIN H : Rank(H[i]) <= m

NonDecreasing(H) == \A i, j \in DOMAIN H : i < j => Rank(H[i]) <= Rank(H[j])

Delimited(K, v) ==
    CASE K = "element"       -> v
      [] K = "id"            -> <<"#">> \o v
      [] K = "class"         -> <<".">> \o v
      [] K = "attr"          -> <<"[">> \o v \o <<"]">>
      [] K = "pseudoClass"   -> <<":">> \o v
      [] K = "pseudoElement" -> <<":", ":">> \o v

\* The append the rules allow: no repeated unique kind, no lower rank.
ValidAppend(K, H) ==
    /\ ~(K \in UniqueKinds /\ Occurs(K, H))
    /\ Rank(K) >= MaxRank(H)

\* The last call was a facade constructor or a getter: an append of
\* call.kind onto the history of call.left (empty for a constructor).
Appended == call.op \in {"factory", "append"}

\* A recorded call sequence: only fragments / the kinds of its fragments.
OnlyFragments(h) == \A i \in DOMAIN h : h[i][1] \in Kinds
KindsOf(h) == [i \in DOMAIN h |-> IF h[i][1] = "combine" THEN "element" ELSE h[i][1]]

\* The text a recorded call sequence builds, call by call.
RECURSIVE Render(_)
Render(h) ==
    IF h = <<>> THEN <<>>
    ELSE (IF Head(h)[1] = "combine" THEN Head(h)[2]
          ELSE Delimited(Head(h)[1], Head(h)[2])) \o Render(Tail(h))

\* The fragments of h grouped element, id, class, attr, pseudoClass,
\* pseudoElement, each group in the order of h.
OfKind(h, K) == SelectSeq(h, LAMBDA f : f[1] = K)
Grouped(h) ==
    Render(OfKind(h, "element")) \o Render(OfKind(h, "id"))
        \o Render(OfKind(h, "class")) \o Render(OfKind(h, "attr"))
        \o Render(OfKind(h, "pseudoClass")) \o Render(OfKind(h, "pseudoElement"))

----------------------------------------------------------------------------
\* C1: an append of Element, Id or PseudoElement onto a selector whose
\* history already holds that kind fails with the duplicate error and
\* returns no selector, whatever was appended in between.
C1_DuplicateFails ==
    (call.op = "append" /\ call.kind \in UniqueKinds
        /\ Occurs(call.kind, History(call.left)))
    => (err = UniquenessError /\ ret = Null)

\* element, class, then element again: the duplicate error.
C1_Witness ==
    /\ call.op = "append" /\ call.kind = "element"
    /\ History(call.left) = <<"element", "class">>
    /\ err = UniquenessError /\ ret = Null

\* C2 as stated: an append of a kind whose rank is below the maximum rank
\* of the history fails with the order error.
C2_LowerRankGivesOrderError ==
    (call.op = "append" /\ Rank(call.kind) < MaxRank(History(call.left)))
    => err = OrderError

\* C2 amended: such an append fails and returns no selector; the error is
\* the order error unless the kind is an Element or Id the history already
\* holds, and then it is the duplicate error.
C2_LowerRankFails ==
    (call.op = "append" /\ Rank(call.kind) < MaxRank(History(call.left)))
    => /\ ret = Null
       /\ err = IF call.kind \in UniqueKinds /\ Occurs(call.kind, History(call.left))
                THEN UniquenessError ELSE OrderError

\* id after class: the order error.
C2_Witness ==
    /\ call.op = "append" /\ call.kind = "id"
    /\ History(call.left) = <<"class">>
    /\ err = OrderError /\ ret = Null

\* C3: an append succeeds exactly when the kind repeats no Element, Id or
\* PseudoElement of the history and its rank is at least the history's
\* maximum rank (0 for the empty history).
C3_SucceedsIffValid ==
    Appended =>
        /\ (err = NoError) <=> ValidAppend(call.kind, History(call.left))
        /\ (err = NoError) <=> (ret # Null)
        /\ err \in {NoError, UniquenessError, OrderError}

\* class appended after class after class.
C3_Witness ==
    /\ call.op = "append" /\ call.kind = "class"
    /\ History(call.left) = <<"class", "class">>
    /\ err = NoError /\ History(ret) = <<"class", "class", "class">>

\* C4: a successful append of (K, v) onto text T and history H returns a
\* selector with text T followed by the delimited form of the fragment and
\* history H followed by K; T and H are empty for a facade constructor.
C4_AppendsDelimited ==
    (Appended /\ err = NoError) =>
        /\ stringify(ret) = stringify(call.left) \o Delimited(call.kind, call.value)
        /\ History(ret) = Append(History(call.left), call.kind)
        /\ call.op = "factory" => (call.left = Null /\ History(ret) = <<call.kind>>)

\* a[b] from a.
C4_Witness ==
    /\ call.op = "append" /\ err = NoError
    /\ stringify(call.left) = <<"a">>
    /\ stringify(ret) = <<"a", "[", "b", "]">>
    /\ History(ret) = <<"element", "attr">>

\* A call sequence that respects the precedence order and repeats no
\* Element, Id or PseudoElement.
ValidSequence(h) ==
    /\ OnlyFragments(h)
    /\ NonDecreasing(KindsOf(h))
    /\ \A K \in UniqueKinds : Count(K, KindsOf(h)) <= 1

\* The calls that built the receiver of the last append: none for a
\* facade constructor.
Receiver == IF call.op = "append" THEN hist.sel ELSE <<>>

\* C5: along a sequence of appends that respects the precedence order and
\* repeats no Element, Id or PseudoElement every append succeeds, and the
\* text is the delimited fragments grouped by kind in precedence order,
\* repeated kinds in the order appended.
C5_ValidSequenceGrouped ==
    /\ (Appended /\ ValidSequence(Receiver \o << <<call.kind, call.value>> >>))
        => (err = NoError /\ ret # Null)
    /\ (ret # Null /\ ValidSequence(hist.ret)) => stringify(ret) = Grouped(hist.ret)
    /\ (sel # Null /\ ValidSequence(hist.sel)) => stringify(sel) = Grouped(hist.sel)

\* id('a').class('a').class('b') is #a.a.b
C5_Witness ==
    /\ call.op = "append" /\ err = NoError
    /\ hist.ret = << <<"id", <<"a">> >>, <<"class", <<"a">> >>, <<"class", <<"b">> >> >>
    /\ stringify(ret) = <<"#", "a", ".", "a", ".", "b">>

\* C6: every selector a call returns records at most one Element, one Id
\* and one PseudoElement.
C6_AtMostOneUnique ==
    \A s \in {sel, ret, old} : \A K \in UniqueKinds : Count(K, History(s)) <= 1

\* A selector with all three of them.
C6_Witness ==
    /\ History(ret) = <<"element", "id", "pseudoElement">>
    /\ \A K \in UniqueKinds : Count(K, History(ret)) = 1

\* C7: the ranks of the kinds every returned selector records are
\* non-decreasing from oldest to newest.
C7_HistoryNonDecreasing ==
    \A s \in {sel, ret, old} : NonDecreasing(History(s))

\* Three kinds of rising rank.
C7_Witness ==
    /\ History(ret) = <<"class", "attr", "pseudoClass">>
    /\ NonDecreasing(History(ret))

\* The call sequence h is base followed by one more call.
Continues(h, base) ==
    /\ Len(h) = Len(base) + 1
    /\ SubSeq(h, 1, Len(base)) = base

\* C8: no call changes a selector it is given: the receiver of an append
\* and the operands of combine are after the call what they were before
\* it, every selector the client holds still has the text and the history
\* its own calls built, and two continuations of one prefix each have the
\* prefix's text followed by their own fragment.
C8_OperandsUnchanged ==
    /\ call.op = "append" => sel = call.left
    /\ call.op = "combine" =>
        /\ call.a1 = "sel" => sel = call.left
        /\ call.a2 = "sel" => sel = call.right
        /\ call.a1 = "ret" => old = call.left
        /\ call.a2 = "ret" => old = call.right
    /\ \A n \in {"sel", "ret", "old"} :
        LET s == IF n = "sel" THEN sel ELSE IF n = "ret" THEN ret ELSE old
        IN  /\ stringify(s) = Render(hist[n])
            /\ History(s) = KindsOf(hist[n])
    /\ (sel # Null /\ Continues(hist.old, hist.sel) /\ Continues(hist.ret, hist.sel)) =>
        /\ stringify(old) = stringify(sel)
                \o Delimited(hist.old[Len(hist.old)][1], hist.old[Len(hist.old)][2])
        /\ stringify(ret) = stringify(sel)
                \o Delimited(hist.ret[Len(hist.ret)][1], hist.ret[Len(hist.ret)][2])

\* From the prefix a: a.a, and then a#b.
C8_Witness ==
    /\ call.op = "append" /\ sel = call.left
    /\ stringify(sel) = <<"a">>
    /\ Continues(hist.old, hist.sel) /\ Continues(hist.ret, hist.sel)
    /\ stringify(old) = <<"a", ".", "a">>
    /\ stringify(ret) = <<"a", "#", "b">>

\* C9: a failed append leaves its receiver as it was, and the append made
\* after it on the same receiver has the outcome the receiver's own calls
\* determine: it succeeds when valid, with the receiver's text followed by
\* the new fragment.
C9_FailedAppendHarmless ==
    /\ (call.op = "append" /\ err # NoError) =>
        /\ ret = Null
        /\ sel = call.left
        /\ stringify(sel) = Render(hist.sel)
        /\ History(sel) = KindsOf(hist.sel)
        /\ \A K \in Kinds, v \in Values :
            getter(sel, K, v).ret = getter(call.left, K, v).ret
    /\ (call.op = "append" /\ hist.prevErr # NoError) =>
        /\ (err = NoError) <=> ValidAppend(call.kind, KindsOf(hist.sel))
        /\ err = NoError =>
            /\ stringify(ret) = Render(hist.sel) \o Delimited(call.kind, call.value)
            /\ History(ret) = Append(KindsOf(hist.sel), call.kind)

\* On .a: element fails, then class still succeeds.
C9_Witness ==
    /\ call.op = "append" /\ hist.prevErr = OrderError
    /\ stringify(sel) = <<".", "a">>
    /\ err = NoError /\ stringify(ret) = <<".", "a", ".", "b">>

\* C10: combine(left, c, right) returns a selector whose text is left's
\* text, a space, c, a space, right's text, whatever the shapes of left
\* and right and whatever the string c.
C10_CombineText ==
    call.op = "combine" =>
        /\ err = NoError /\ ret # Null
        /\ stringify(ret) = stringify(call.left) \o <<" ">> \o call.value \o <<" ">>
                                \o stringify(call.right)

\* combine(a, ' ', combine(a, '+', a)): a, three spaces, a + a.
C10_Witness ==
    /\ call.op = "combine"
    /\ stringify(call.left) = <<"a">>
    /\ stringify(call.right) = <<"a", " ", "+", " ", "a">>
    /\ stringify(ret) = <<"a", " ", " ", " ", "a", " ", "+", " ", "a">>

\* C11: combine never fails: whatever the kinds of its operands and
\* whatever the combinator string, it throws nothing and returns a selector.
C11_CombineNeverFails ==
    call.op = "combine" =>
        /\ err = NoError
        /\ ret # Null
        /\ ret.type # <<>>

\* combine(::a, '||', b): a pseudo-element on the left, an element on the
\* right, a combinator outside the four.
C11_Witness ==
    /\ call.op = "combine" /\ call.value = <<"||">>
    /\ History(call.left) = <<"pseudoElement">>
    /\ History(call.right) = <<"element">>
    /\ err = NoError
    /\ stringify(ret) = <<":", ":", "a", " ", "||", " ", "b">>

\* An append that breaks both rules: the kind is an Element, Id or
\* PseudoElement the history holds, and its rank is below the maximum.
BreaksBoth ==
    /\ call.op = "append"
    /\ call.kind \in UniqueKinds /\ Occurs(call.kind, History(call.left))
    /\ Rank(call.kind) < MaxRank(History(call.left))

\* C12: an append that breaks both rules fails with the duplicate error,
\* never with the order error.
C12_DuplicateBeforeOrder ==
    BreaksBoth => (err = UniquenessError /\ err # OrderError /\ ret = Null)

\* id, class, then id again.
C12_Witness ==
    /\ BreaksBoth /\ call.kind = "id"
    /\ History(call.left) = <<"id", "class">>
    /\ err = UniquenessError

\* The messages the specification of the builder gives for the two errors.
SpecDuplicateMessage == "Element, id and pseudo-element should not occur more than one time inside the selector"
SpecOrderMessage == "Selector parts should be arranged in the following order: element, id, class, attribute, pseudo-class, pseudo-element"

\* C15: a failed append carries the message given for its kind: a
\* duplicate failure SpecDuplicateMessage, an order failure SpecOrderMessage.
C15_SpecMessages ==
    (call.op = "append" /\ err # NoError) =>
        err = IF call.kind \in UniqueKinds /\ Occurs(call.kind, History(call.left))
              THEN SpecDuplicateMessage ELSE SpecOrderMessage

\* The selector sel is the result of a combine call.
CombineResult(h) == Len(h) = 1 /\ h[1][1] = "combine"

\* C16: a selector returned by combine has an empty fragment-kind history,
\* and an append on it is never refused on account of a kind of the
\* combined value.
C16_CombineNoHistory ==
    /\ call.op = "combine" => History(ret) = <<>>
    /\ (call.op = "append" /\ CombineResult(hist.sel)) =>
        (History(call.left) = <<>> /\ err = NoError)

\* C17: an append on a combine result is validated as on the history
\* <<element>>: element fails with the duplicate error, every other kind
\* succeeds and puts its delimited fragment after the combined text.
C17_CombineResultIsElement ==
    (call.op = "append" /\ CombineResult(hist.sel)) =>
        /\ History(call.left) = <<"element">>
        /\ stringify(call.left) = hist.sel[1][2]
        /\ call.kind = "element" => (err = UniquenessError /\ ret = Null)
        /\ call.kind # "element" =>
            /\ err = NoError
            /\ stringify(ret) = stringify(call.left) \o Delimited(call.kind, call.value)
            /\ History(ret) = <<"element", call.kind>>

\* On combine(.a, '+', .a): id('b') gives .a + .a#b
C17_Witness ==
    /\ call.op = "append" /\ CombineResult(hist.sel)
    /\ stringify(call.left) = <<".", "a", " ", "+", " ", ".", "a">>
    /\ call.kind = "id" /\ err = NoError
    /\ stringify(ret) = <<".", "a", " ", "+", " ", ".", "a", "#", "b">>

\* On a combine result: element fails with the duplicate error.
C17_WitnessElement ==
    /\ call.op = "append" /\ CombineResult(hist.sel)
    /\ call.kind = "element" /\ err = UniquenessError

\* The last append was made on a selector that holds a pseudo-element.
AfterPseudoElement ==
    call.op = "append" /\ Occurs("pseudoElement", History(call.left))

\* C18 as stated: after a pseudo-element every append fails, a
\* PseudoElement with the duplicate error, every other kind with the
\* order error.
C18_OnlyPseudoElementDuplicate ==
    AfterPseudoElement =>
        /\ ret = Null
        /\ err = IF call.kind = "pseudoElement" THEN UniquenessError ELSE OrderError

\* C18 amended: after a pseudo-element every append fails and returns no
\* selector: with the duplicate error for a PseudoElement and for an
\* Element or Id the history holds, with the order error otherwise; so a
\* pseudo-element is the newest kind of every selector that holds one.
C18_NothingAfterPseudoElement ==
    /\ AfterPseudoElement =>
        /\ ret = Null
        /\ err = IF call.kind \in UniqueKinds /\ Occurs(call.kind, History(call.left))
                 THEN UniquenessError ELSE OrderError
    /\ \A s \in {sel, ret, old} :
        Occurs("pseudoElement", History(s)) => s.type[1] = "pseudoElement"

\* On a::b: class fails with the order error.
C18_Witness ==
    /\ AfterPseudoElement /\ call.kind = "class"
    /\ History(call.left) = <<"element", "pseudoElement">>
    /\ err = OrderError /\ ret = Null

\* C14: stringify is a pure read: each call returns the text the
\* selector's own calls built, so two calls return the same string, before,
\* between and after appends made from the selector, and the call leaves
\* the selector's text and history as they were.
C14_StringifyPureRead ==
    /\ \A i \in DOMAIN out : out[i] = Render(hist.sel)
    /\ Len(out) = 2 => out[1] = out[2]
    /\ call.op = "stringify" =>
        /\ out # <<>> /\ out[Len(out)] = stringify(call.left)
        /\ sel = call.left
        /\ stringify(sel) = Render(hist.sel)
        /\ History(sel) = KindsOf(hist.sel)
        /\ err = NoError

\* On a: a.b appended from it, then stringify: "a".
C14_Witness ==
    /\ call.op = "stringify" /\ out = << <<"a">> >>
    /\ sel = call.left /\ stringify(sel) = <<"a">>
    /\ Continues(hist.old, hist.sel) /\ stringify(old) = <<"a", ".", "b">>

\* On #b: stringify twice, "#b" both times.
C14_WitnessTwice ==
    /\ call.op = "stringify" /\ out = << <<"#", "b">>, <<"#", "b">> >>
    /\ sel = call.left /\ stringify(sel) = <<"#", "b">>

\* C19: the builder that checks the order against the most recent kind
\* only, run on the same calls, agrees with the builder that checks
\* against the whole history: after every call the same selectors (text
\* and history), the same success or failure and the same error.
C19_LastKindAgrees ==
    /\ alt.sel = sel
    /\ alt.ret = ret
    /\ alt.err = err
    /\ (ret = Null) <=> (alt.ret = Null)
    /\ stringify(alt.ret) = stringify(ret)

\* On .a:b the append of attr is refused by both.
C19_Witness ==
    /\ call.op = "append" /\ call.kind = "attr"
    /\ History(call.left) = <<"class", "pseudoClass">>
    /\ err = OrderError /\ alt.err = OrderError
    /\ alt.sel = sel /\ ret = Null /\ alt.ret = Null

\* The outcomes of a chain of appends run alone from the selector cur.
RECURSIVE RunAlone(_, _)
RunAlone(cur, chain) ==
    IF chain = <<>> THEN <<>>
    ELSE LET o == getter(cur, Head(chain)[1], Head(chain)[2])
         IN  <<Noted(o)>> \o RunAlone(IF o.error = NoError THEN o.ret ELSE o.this,
                                      Tail(chain))

\* C13: under every interleaving of the two callers' calls each caller
\* gets, call by call, the outcome (success or which error, and the text)
\* its chain gets when run alone from the shared prefix.
C13_InterleavingAsAlone ==
    \A i \in Callers :
        shared.outs[i] = RunAlone(shared.prefix0, shared.chain[i])

\* Caller 1, caller 2, caller 1 again on the prefix .a: caller 1 has
\* .a.a and then .a.a:a, caller 2 was refused #b in between.
C13_Witness ==
    /\ shared.first = 1 /\ shared.last = 1
    /\ stringify(shared.prefix0) = <<".", "a">>
    /\ shared.chain[2] = << <<"id", <<"b">> >> >>
    /\ shared.outs[2] = << [err |-> OrderError, text |-> <<>>] >>
    /\ shared.outs[1] = << [err |-> NoError, text |-> <<".", "a", ".", "a">>],
                           [err |-> NoError, text |-> <<".", "a", ".", "a", ":", "a">>] >>

====
